---- MODULE Spec2Model ----
(***************************************************************************)
(* InfrastructureManager (src/InfrastructureManager/                       *)
(* infrastructure_manager.py): the operation store, the three public       *)
(* calls describe_operation / run_instances / terminate_instances, and the *)
(* workers __spawn_vms and __kill_vms, run against a cloud agent whose     *)
(* inventory is shared by all workers.                                     *)
(***************************************************************************)
EXTENDS Integers, Sequences, FiniteSets, TLC

(* ------------------------------ bounds --------------------------------- *)
\* accepted submissions (each starts one worker)
MaxOps == 2
\* instances the backend launches over a run of the model
MaxInst == 2

(* ----------------------------- constants ------------------------------- *)
REASON_BAD_SECRET == "bad secret"
REASON_BAD_VM_COUNT == "bad vm count"
REASON_OPERATION_ID_NOT_FOUND == "operation_id not found"
REASON_NONE == "none"
PARAM_OPERATION_ID == "operation_id"
PARAM_INFRASTRUCTURE == "infrastructure"
PARAM_NUM_VMS == "num_vms"
STATE_PENDING == "pending"
STATE_SUCCESS == "success"
STATE_FAILED == "failed"
DESCRIBE_INSTANCES_REQUIRED_PARAMS == <<PARAM_OPERATION_ID>>
RUN_INSTANCES_REQUIRED_PARAMS == <<PARAM_INFRASTRUCTURE, PARAM_NUM_VMS>>
TERMINATE_INSTANCES_REQUIRED_PARAMS == <<PARAM_INFRASTRUCTURE>>

\* Python's None, as a record so that it compares with vm_info records
None == [none |-> TRUE]

(* ------------------------------ helpers -------------------------------- *)
Range(s) == {s[i] : i \in 1..Len(s)}

\* identifiers utils.get_random_alphanumeric can return: one per submission
IdNames == <<"id1", "id2", "id3", "id4">>
Ids == {IdNames[i] : i \in 1..MaxOps}

\* the secret utils.get_secret() loaded at construction
TheSecret == "s3cret"

\* secrets a caller may pass: the right string, a wrong string, a non-string
SecretArgs ==
  { [type |-> "str", val |-> TheSecret],
    [type |-> "str", val |-> "wrong"],
    [type |-> "int", val |-> "42"] }

\* private addresses the backend's subnet hands out (reused once released)
PrivatePool == 1..MaxInst

(* ---------------- the cloud agent (external collaborator) -------------- *)
AgentConfigurationException(m) == [type |-> "AgentConfigurationException", msg |-> m]
AgentRuntimeException(m) == [type |-> "AgentRuntimeException", msg |-> m]

\* the errors a backend call can raise
AgentErrors ==
  { AgentConfigurationException("bad configuration"),
    AgentRuntimeException("backend failure") }

\* BaseAgent.assert_required_parameters: the backend's own required key
assert_required_parameters(parameters) ==
  IF "credentials" \in DOMAIN parameters
    THEN None
    ELSE AgentConfigurationException("no credentials")

\* agent.describe_instances: the inventory as three parallel sequences
describe_instances(inv) ==
  [ public_ips |-> [i \in 1..Len(inv) |-> inv[i].pub],
    private_ips |-> [i \in 1..Len(inv) |-> inv[i].priv],
    instance_ids |-> [i \in 1..Len(inv) |-> inv[i].id] ]

EmptyInventory == [public_ips |-> <<>>, private_ips |-> <<>>, instance_ids |-> <<>>]

\* agent.diff: set difference, keeping the order of its first argument
diff(a, b) == SelectSeq(a, LAMBDA x : x \notin Range(b))

(* ------------------------------- state --------------------------------- *)
VARIABLES
  blocking,       \* self.blocking
  operation_ids,  \* self.operation_ids: the persistent dictionary
  threads,        \* the workers started so far, in order of submission
  inventory,      \* the backend's live instances, oldest first
  nextInst,       \* instances the backend has launched so far
  puts,           \* per key, the states written by each put, in order
  event           \* the public call made by the last step and its outcome

vars == <<blocking, operation_ids, threads, inventory, nextInst, puts, event>>

NoEvent == [api |-> "none"]

Tids == 1..Len(threads)

(* ----------------------- InfrastructureManager ------------------------- *)
\* __generate_response(status, msg) without extra fields
generate_response(status, msg) == [success |-> status, reason |-> msg]

\* __generate_response(True, REASON_NONE, {'operation_id': id})
generate_response_id(operation_id) ==
  [success |-> TRUE, reason |-> REASON_NONE, operation_id |-> operation_id]

\* an exception that leaves a public call
Raised(exc) == [raised |-> exc]

\* a string that json.loads refuses
NotJson == [malformed |-> TRUE]

\* what a caller may pass as parameters: a dict, the JSON text of a dict, a
\* string that is not JSON, or a value that is neither a str nor a dict
Payloads(maps) ==
  {[type |-> "dict", value |-> m] : m \in maps}
    \cup {[type |-> "str", value |-> m] : m \in maps}
    \cup {[type |-> "str", value |-> NotJson], [type |-> "other", value |-> <<>>]}

\* __validate_args: the exception it raises, or None
validate_args(payload, secret) ==
  IF payload.type \notin {"str", "dict"} THEN Raised("TypeError")
  ELSE IF secret.type # "str" THEN Raised("TypeError")
  ELSE IF payload.type = "str" /\ payload.value = NotJson THEN Raised("ValueError")
  ELSE None

\* int(parameters['num_vms']) on the strings callers send
IntStrings == {"-1", "0", "1", "2"}
ParseInt(s) ==
  CASE s = "-1" -> -1
    [] s = "0" -> 0
    [] s = "1" -> 1
    [] s = "2" -> 2

\* the first required parameter that utils.has_parameter does not find
FirstMissing(required, parameters) ==
  LET missing == {i \in 1..Len(required) : required[i] \notin DOMAIN parameters}
  IN IF missing = {} THEN None
     ELSE [param |-> required[CHOOSE i \in missing : \A j \in missing : i <= j]]

\* parameter maps of run_instances requests
RunParameters ==
  LET Opt(k, vals) == {<<>>} \cup {<<k, v>> : v \in vals}
      Build(a, b, c) ==
        [k \in {p[1] : p \in {x \in {a, b, c} : x # <<>>}} |->
           (CHOOSE p \in {a, b, c} : p # <<>> /\ p[1] = k)[2]]
  IN { Build(a, b, c) :
         a \in Opt(PARAM_INFRASTRUCTURE, {"test"}),
         b \in Opt(PARAM_NUM_VMS, IntStrings \cup {"abc"}),
         c \in Opt("credentials", {"key"}) }

\* parameter maps of terminate_instances requests
TerminateParameters ==
  { p \in RunParameters : PARAM_NUM_VMS \notin DOMAIN p }

\* parameter maps of describe_operation requests
DescribeParameters ==
  {<<>>} \cup {[operation_id |-> i] : i \in Ids}

\* a generator that may repeat an identifier the store already holds
get_random_alphanumeric_repeating(store) == Ids

\* utils.get_random_alphanumeric: a fresh identifier
get_random_alphanumeric(store) == Ids \ DOMAIN store

\* the record run_instances stores at submission
RunStatusInfo ==
  [success |-> TRUE, reason |-> "received run request",
   state |-> STATE_PENDING, vm_info |-> None]

\* the record terminate_instances stores at submission
TerminateStatusInfo ==
  [success |-> TRUE, reason |-> "received kill request", state |-> STATE_PENDING]

\* PersistentDictionary.put
Put(store, key, value) ==
  [k \in DOMAIN store \cup {key} |-> IF k = key THEN value ELSE store[k]]

LogPut(key, value) ==
  [k \in DOMAIN puts \cup {key} |->
     IF k = key
       THEN (IF k \in DOMAIN puts THEN puts[k] ELSE <<>>) \o <<value.state>>
       ELSE puts[k]]

NewThread(kind, operation_id, num_vms) ==
  [ kind |-> kind, operation_id |-> operation_id, num_vms |-> num_vms,
    pc |-> "get", status_info |-> None,
    active |-> EmptyInventory, observed |-> EmptyInventory,
    launched |-> <<>>, others |-> {}, exception |-> None, calls |-> 0 ]

\* the secret argument is the string the manager holds
SecretMatches(secret) == secret.type = "str" /\ secret.val = TheSecret

\* what a step records of the public call it makes: whether __validate_args
\* let it through, whether the secret matched, the parameter the call went
\* on to read (num_vms, operation_id), and the outcome
Call(api, payload, secret, read, result) ==
  [api |-> api,
   validated |-> validate_args(payload, secret) = None,
   secret_ok |-> SecretMatches(secret),
   parameters |-> read,
   result |-> result]

\* the outcome of an accepted run_instances / terminate_instances
Returned(api, result) ==
  [api |-> api, validated |-> TRUE, secret_ok |-> TRUE,
   parameters |-> <<>>, result |-> result]

\* a submission that returns the operation id at once whatever the mode
Started_at_once(api, operation_id) ==
  Returned(api, generate_response_id(operation_id))

\* an accepted submission returns the operation id at once when the worker
\* gets its own thread; when the worker runs inline the call is still running
Started(api, operation_id) ==
  IF blocking THEN NoEvent ELSE Returned(api, generate_response_id(operation_id))

\* the worker of thread t has ended
Ended(t) == threads[t].pc \in {"done", "raised"}

\* room for one more worker; a blocking manager serves one caller, whose
\* call returns only when the inline worker has ended
CanStart ==
  /\ Len(threads) < MaxOps
  /\ blocking => \A t \in Tids : Ended(t)

\* a rejection that comes after the pending record was stored
Rejected_record_left(api, payload, secret, read, result) ==
  /\ event' = Call(api, payload, secret, read, result)
  /\ operation_ids' = Put(operation_ids, IdNames[1], RunStatusInfo)
  /\ UNCHANGED <<blocking, threads, inventory, nextInst, puts>>

\* a call that returns or raises before anything is stored
Rejected(api, payload, secret, read, result) ==
  /\ event' = Call(api, payload, secret, read, result)
  /\ UNCHANGED <<blocking, operation_ids, threads, inventory, nextInst, puts>>

\* the parameter named key, as the call read it
Read(parameters, key) == [k \in {key} |-> parameters[k]]

\* run_instances looking at the required keys before the secret
run_instances_checks_keys_first(payload, secret) ==
  LET invalid == validate_args(payload, secret)
      parameters == payload.value
      missing == FirstMissing(RUN_INSTANCES_REQUIRED_PARAMS, parameters)
      cfg == assert_required_parameters(parameters)
  IN
  IF invalid # None THEN invalid
  ELSE IF missing # None THEN generate_response(FALSE, "no " \o missing.param)
  ELSE IF TheSecret # secret.val THEN generate_response(FALSE, REASON_BAD_SECRET)
  ELSE IF parameters[PARAM_NUM_VMS] \notin IntStrings THEN Raised("ValueError")
  ELSE IF ParseInt(parameters[PARAM_NUM_VMS]) <= 0
    THEN generate_response(FALSE, REASON_BAD_VM_COUNT)
  ELSE IF cfg # None THEN generate_response(FALSE, cfg.msg)
  ELSE None

\* run_instances before it allocates the operation id: what it returns or
\* raises, or None when it goes on to start the operation
run_instances_checks(payload, secret) ==
  LET invalid == validate_args(payload, secret)
      parameters == payload.value
      missing == FirstMissing(RUN_INSTANCES_REQUIRED_PARAMS, parameters)
      cfg == assert_required_parameters(parameters)
  IN
  IF invalid # None THEN invalid
  ELSE IF TheSecret # secret.val THEN generate_response(FALSE, REASON_BAD_SECRET)
  ELSE IF missing # None THEN generate_response(FALSE, "no " \o missing.param)
  ELSE IF parameters[PARAM_NUM_VMS] \notin IntStrings THEN Raised("ValueError")
  ELSE IF ParseInt(parameters[PARAM_NUM_VMS]) <= 0
    THEN generate_response(FALSE, REASON_BAD_VM_COUNT)
  ELSE IF cfg # None THEN generate_response(FALSE, cfg.msg)
  ELSE None

\* the parameter a call went on to read once the secret and the required
\* keys were accepted
ReadBy(payload, secret, required, key) ==
  IF /\ validate_args(payload, secret) = None
     /\ TheSecret = secret.val
     /\ FirstMissing(required, payload.value) = None
    THEN Read(payload.value, key)
    ELSE <<>>

\* run_instances starting the worker and returning the id with the pending
\* record not yet stored
run_instances_thread_first(payload, secret) ==
  /\ event = NoEvent
  /\ LET result == run_instances_checks(payload, secret)
         parameters == payload.value
     IN
     IF result # None
       THEN Rejected("run", payload, secret,
                     ReadBy(payload, secret, RUN_INSTANCES_REQUIRED_PARAMS, PARAM_NUM_VMS),
                     result)
       ELSE
         /\ CanStart
         /\ \E operation_id \in get_random_alphanumeric(operation_ids) :
              /\ threads' = Append(threads,
                   NewThread("run", operation_id, ParseInt(parameters[PARAM_NUM_VMS])))
              /\ event' = Started("run", operation_id)
         /\ UNCHANGED <<blocking, operation_ids, inventory, nextInst, puts>>

\* run_instances(parameters, secret) up to the start of the worker
run_instances(payload, secret) ==
  /\ event = NoEvent
  /\ LET result == run_instances_checks(payload, secret)
         parameters == payload.value
     IN
     IF result # None
       THEN Rejected("run", payload, secret,
                     ReadBy(payload, secret, RUN_INSTANCES_REQUIRED_PARAMS, PARAM_NUM_VMS),
                     result)
       ELSE
         /\ CanStart
         /\ \E operation_id \in get_random_alphanumeric(operation_ids) :
              /\ operation_ids' = Put(operation_ids, operation_id, RunStatusInfo)
              /\ puts' = LogPut(operation_id, RunStatusInfo)
              /\ threads' = Append(threads,
                   NewThread("run", operation_id, ParseInt(parameters[PARAM_NUM_VMS])))
              /\ event' = Started("run", operation_id)
         /\ UNCHANGED <<blocking, inventory, nextInst>>

\* terminate_instances before it allocates the operation id
terminate_instances_checks(payload, secret) ==
  LET invalid == validate_args(payload, secret)
      parameters == payload.value
      missing == FirstMissing(TERMINATE_INSTANCES_REQUIRED_PARAMS, parameters)
      cfg == assert_required_parameters(parameters)
  IN
  IF invalid # None THEN invalid
  ELSE IF TheSecret # secret.val THEN generate_response(FALSE, REASON_BAD_SECRET)
  ELSE IF missing # None THEN generate_response(FALSE, "no " \o missing.param)
  ELSE IF cfg # None THEN generate_response(FALSE, cfg.msg)
  ELSE None

\* terminate_instances(parameters, secret) up to the start of the worker
terminate_instances(payload, secret) ==
  /\ event = NoEvent
  /\ LET result == terminate_instances_checks(payload, secret) IN
     IF result # None
       THEN Rejected("terminate", payload, secret, <<>>, result)
       ELSE
         /\ CanStart
         /\ \E operation_id \in get_random_alphanumeric(operation_ids) :
              /\ operation_ids' = Put(operation_ids, operation_id, TerminateStatusInfo)
              /\ puts' = LogPut(operation_id, TerminateStatusInfo)
              /\ threads' = Append(threads, NewThread("terminate", operation_id, 0))
              /\ event' = Started("terminate", operation_id)
         /\ UNCHANGED <<blocking, inventory, nextInst>>

\* a describe that hides the operations still pending
describe_operation_result_terminal_only(payload, secret, store) ==
  LET invalid == validate_args(payload, secret)
      parameters == payload.value
      missing == FirstMissing(DESCRIBE_INSTANCES_REQUIRED_PARAMS, parameters)
  IN
  IF invalid # None THEN invalid
  ELSE IF TheSecret # secret.val THEN generate_response(FALSE, REASON_BAD_SECRET)
  ELSE IF missing # None THEN generate_response(FALSE, "no " \o missing.param)
  ELSE IF /\ parameters[PARAM_OPERATION_ID] \in DOMAIN store
          /\ store[parameters[PARAM_OPERATION_ID]].state # STATE_PENDING
    THEN store[parameters[PARAM_OPERATION_ID]]
  ELSE generate_response(FALSE, REASON_OPERATION_ID_NOT_FOUND)

\* what describe_operation returns or raises
describe_operation_result(payload, secret, store) ==
  LET invalid == validate_args(payload, secret)
      parameters == payload.value
      missing == FirstMissing(DESCRIBE_INSTANCES_REQUIRED_PARAMS, parameters)
  IN
  IF invalid # None THEN invalid
  ELSE IF TheSecret # secret.val THEN generate_response(FALSE, REASON_BAD_SECRET)
  ELSE IF missing # None THEN generate_response(FALSE, "no " \o missing.param)
  ELSE IF parameters[PARAM_OPERATION_ID] \in DOMAIN store
    THEN store[parameters[PARAM_OPERATION_ID]]
  ELSE generate_response(FALSE, REASON_OPERATION_ID_NOT_FOUND)

\* a describe that drops the record of a finished operation once it has
\* returned it
describe_operation_consuming(payload, secret) ==
  /\ event = NoEvent
  /\ LET result == describe_operation_result(payload, secret, operation_ids)
         read == ReadBy(payload, secret, DESCRIBE_INSTANCES_REQUIRED_PARAMS,
                        PARAM_OPERATION_ID)
         found == "state" \in DOMAIN result /\ result.state # STATE_PENDING
     IN
       /\ event' = Call("describe", payload, secret, read, result)
       /\ operation_ids' =
            IF found
              THEN [k \in DOMAIN operation_ids \ {read[PARAM_OPERATION_ID]} |->
                      operation_ids[k]]
              ELSE operation_ids
  /\ UNCHANGED <<blocking, threads, inventory, nextInst, puts>>

\* describe_operation(parameters, secret)
describe_operation(payload, secret) ==
  /\ event = NoEvent
  /\ Rejected("describe", payload, secret,
              ReadBy(payload, secret, DESCRIBE_INSTANCES_REQUIRED_PARAMS, PARAM_OPERATION_ID),
              describe_operation_result(payload, secret, operation_ids))

(* --------------------------- __spawn_vms ------------------------------- *)
\* thread t becomes r
SetThread(t, r) == threads' = [threads EXCEPT ![t] = r]

\* thread t becomes r after launching the instances new; every other run
\* worker that holds a baseline and has not yet looked at the inventory
\* again notes them as launched by another operation
Launch(t, r, new) ==
  threads' = [u \in Tids |->
    IF u = t THEN r
    ELSE IF threads[u].kind = "run" /\ threads[u].pc \in {"launch", "reconcile"}
      THEN [threads[u] EXCEPT !.others = @ \cup {new[i].id : i \in 1..Len(new)}]
      ELSE threads[u]]

\* the instances one launch call creates: fresh ids and public addresses,
\* and the lowest private addresses no live instance holds
NewInstances(k) ==
  LET free == PrivatePool \ {inventory[i].priv : i \in 1..Len(inventory)}
      nth(i) == CHOOSE x \in free : Cardinality({y \in free : y < x}) = i - 1
  IN [i \in 1..k |-> [id |-> nextInst + i, pub |-> 100 + nextInst + i, priv |-> nth(i)]]

\* status_info = self.operation_ids.get(operation_id)
spawn_vms_get(t) ==
  /\ event = NoEvent
  /\ threads[t].kind = "run" /\ threads[t].pc = "get"
  /\ SetThread(t, [threads[t] EXCEPT
       !.status_info = operation_ids[threads[t].operation_id],
       !.pc = "describe"])
  /\ UNCHANGED <<blocking, operation_ids, inventory, nextInst, puts, event>>

\* __describe_vms(agent, parameters): the inventory, or three empty lists
\* when the agent's call raises
describe_vms(inv) == {describe_instances(inv), EmptyInventory}

\* the baseline: active_public_ips, active_private_ips, active_instances
spawn_vms_baseline(t) ==
  /\ event = NoEvent
  /\ threads[t].kind = "run" /\ threads[t].pc = "describe"
  /\ \E snapshot \in describe_vms(inventory) :
       SetThread(t, [threads[t] EXCEPT !.active = snapshot, !.pc = "launch"])
  /\ UNCHANGED <<blocking, operation_ids, inventory, nextInst, puts, event>>

\* a try block that stores the private addresses as the public ones
spawn_vms_launched_swapped(t) ==
  /\ event = NoEvent
  /\ threads[t].kind = "run" /\ threads[t].pc = "launch"
  /\ nextInst + threads[t].num_vms <= MaxInst
  /\ LET new == NewInstances(threads[t].num_vms)
         instance_info == describe_instances(new)
     IN
       /\ inventory' = inventory \o new
       /\ nextInst' = nextInst + Len(new)
       /\ Launch(t, [threads[t] EXCEPT
            !.status_info = [threads[t].status_info EXCEPT
               !.state = STATE_SUCCESS,
               !.vm_info = [public_ips |-> instance_info.private_ips,
                            private_ips |-> instance_info.public_ips,
                            instance_ids |-> instance_info.instance_ids]],
            !.launched = new, !.calls = @ + 1, !.pc = "put"], new)
  /\ UNCHANGED <<blocking, operation_ids, puts, event>>

\* the try block: configure_instance_security and run_instances return
spawn_vms_launched(t) ==
  /\ event = NoEvent
  /\ threads[t].kind = "run" /\ threads[t].pc = "launch"
  /\ nextInst + threads[t].num_vms <= MaxInst
  /\ LET new == NewInstances(threads[t].num_vms)
           instance_info == describe_instances(new)
           ids == instance_info.instance_ids
           public_ips == instance_info.public_ips
           private_ips == instance_info.private_ips
     IN
       /\ inventory' = inventory \o new
       /\ nextInst' = nextInst + Len(new)
       /\ Launch(t, [threads[t] EXCEPT
            !.status_info = [threads[t].status_info EXCEPT
               !.state = STATE_SUCCESS,
               !.vm_info = [public_ips |-> public_ips,
                            private_ips |-> private_ips,
                            instance_ids |-> ids]],
            !.launched = new, !.calls = @ + 1, !.pc = "put"], new)
  /\ UNCHANGED <<blocking, operation_ids, puts, event>>

\* an except clause that names AgentRuntimeException alone, as the one of
\* __kill_vms does: a configuration error ends the worker without its put
spawn_vms_raised_runtime_only(t) ==
  /\ event = NoEvent
  /\ threads[t].kind = "run" /\ threads[t].pc = "launch"
  /\ \E k \in 0..(threads[t].num_vms - 1), exception \in AgentErrors :
       /\ nextInst + k <= MaxInst
       /\ LET new == NewInstances(k) IN
            /\ inventory' = inventory \o new
            /\ nextInst' = nextInst + k
            /\ Launch(t, [threads[t] EXCEPT
                 !.launched = new, !.exception = exception, !.calls = @ + 1,
                 !.pc = IF exception.type = "AgentRuntimeException"
                          THEN "reconcile" ELSE "raised"], new)
  /\ UNCHANGED <<blocking, operation_ids, puts, event>>

\* an except clause that stores the failed state at once, before the
\* partial-success check
spawn_vms_raised_failed_first(t) ==
  /\ event = NoEvent
  /\ threads[t].kind = "run" /\ threads[t].pc = "launch"
  /\ \E k \in 0..(threads[t].num_vms - 1), exception \in AgentErrors :
       /\ nextInst + k <= MaxInst
       /\ LET new == NewInstances(k)
              failed == [threads[t].status_info EXCEPT !.state = STATE_FAILED]
          IN
            /\ inventory' = inventory \o new
            /\ nextInst' = nextInst + k
            /\ operation_ids' = Put(operation_ids, threads[t].operation_id, failed)
            /\ puts' = LogPut(threads[t].operation_id, failed)
            /\ Launch(t, [threads[t] EXCEPT
                 !.launched = new, !.exception = exception,
                 !.calls = @ + 1, !.pc = "reconcile"], new)
  /\ UNCHANGED <<blocking, event>>

\* the try block raises: configure_instance_security fails (nothing is
\* launched) or run_instances fails after launching k of the instances
spawn_vms_raised(t) ==
  /\ event = NoEvent
  /\ threads[t].kind = "run" /\ threads[t].pc = "launch"
  /\ \E k \in 0..(threads[t].num_vms - 1), exception \in AgentErrors :
       /\ nextInst + k <= MaxInst
       /\ LET new == NewInstances(k) IN
            /\ inventory' = inventory \o new
            /\ nextInst' = nextInst + k
            /\ Launch(t, [threads[t] EXCEPT
                 !.launched = new, !.exception = exception,
                 !.calls = @ + 1, !.pc = "reconcile"], new)
  /\ UNCHANGED <<blocking, operation_ids, puts, event>>

\* an except block that leaves 'success' as it was
Reconciled_success_kept(status_info, active, observed, exception) ==
  LET public_ips == diff(observed.public_ips, active.public_ips)
      private_ips == diff(observed.private_ips, active.private_ips)
      instance_ids == diff(observed.instance_ids, active.instance_ids)
      checked ==
        IF public_ips # <<>>
          THEN [status_info EXCEPT
                  !.state = STATE_SUCCESS,
                  !.vm_info = [public_ips |-> public_ips,
                               private_ips |-> private_ips,
                               instance_ids |-> instance_ids]]
          ELSE [status_info EXCEPT !.state = STATE_FAILED]
  IN [checked EXCEPT !.reason = exception.msg]

\* an except block that stores an empty vm_info when nothing new is found
Reconciled_empty_vm_info(status_info, active, observed, exception) ==
  LET public_ips == diff(observed.public_ips, active.public_ips)
      private_ips == diff(observed.private_ips, active.private_ips)
      instance_ids == diff(observed.instance_ids, active.instance_ids)
      checked ==
        [status_info EXCEPT
           !.state = IF public_ips # <<>> THEN STATE_SUCCESS ELSE STATE_FAILED,
           !.vm_info = [public_ips |-> public_ips,
                        private_ips |-> private_ips,
                        instance_ids |-> instance_ids]]
  IN [checked EXCEPT !.success = FALSE, !.reason = exception.msg]

\* an except block that gives up when it has no baseline to compare with
Reconciled_needs_baseline(status_info, active, observed, exception) ==
  LET public_ips == diff(observed.public_ips, active.public_ips)
      private_ips == diff(observed.private_ips, active.private_ips)
      instance_ids == diff(observed.instance_ids, active.instance_ids)
      checked ==
        IF public_ips # <<>> /\ active.public_ips # <<>>
          THEN [status_info EXCEPT
                  !.state = STATE_SUCCESS,
                  !.vm_info = [public_ips |-> public_ips,
                               private_ips |-> private_ips,
                               instance_ids |-> instance_ids]]
          ELSE [status_info EXCEPT !.state = STATE_FAILED]
  IN [checked EXCEPT !.success = FALSE, !.reason = exception.msg]

\* an except block that records state failed whatever the diff holds
Reconciled_state_failed(status_info, active, observed, exception) ==
  LET public_ips == diff(observed.public_ips, active.public_ips)
      private_ips == diff(observed.private_ips, active.private_ips)
      instance_ids == diff(observed.instance_ids, active.instance_ids)
      checked ==
        IF public_ips # <<>>
          THEN [status_info EXCEPT
                  !.state = STATE_FAILED,
                  !.vm_info = [public_ips |-> public_ips,
                               private_ips |-> private_ips,
                               instance_ids |-> instance_ids]]
          ELSE [status_info EXCEPT !.state = STATE_FAILED]
  IN [checked EXCEPT !.success = FALSE, !.reason = exception.msg]

\* the except block: the record after the partial-success check
Reconciled(status_info, active, observed, exception) ==
  LET public_ips == diff(observed.public_ips, active.public_ips)
      private_ips == diff(observed.private_ips, active.private_ips)
      instance_ids == diff(observed.instance_ids, active.instance_ids)
      checked ==
        IF public_ips # <<>>
          THEN [status_info EXCEPT
                  !.state = STATE_SUCCESS,
                  !.vm_info = [public_ips |-> public_ips,
                               private_ips |-> private_ips,
                               instance_ids |-> instance_ids]]
          ELSE [status_info EXCEPT !.state = STATE_FAILED]
  IN [checked EXCEPT !.success = FALSE, !.reason = exception.msg]

spawn_vms_except(t) ==
  /\ event = NoEvent
  /\ threads[t].kind = "run" /\ threads[t].pc = "reconcile"
  /\ \E snapshot \in describe_vms(inventory) :
       SetThread(t, [threads[t] EXCEPT
         !.observed = snapshot,
         !.status_info = Reconciled(threads[t].status_info, threads[t].active,
                                    snapshot, threads[t].exception),
         !.pc = "put"])
  /\ UNCHANGED <<blocking, operation_ids, inventory, nextInst, puts, event>>

\* a put under the operation id of the latest submission, as a worker that
\* read the id from a field of the manager would do
spawn_vms_put_latest_id(t) ==
  /\ event = NoEvent
  /\ threads[t].kind = "run" /\ threads[t].pc = "put"
  /\ LET operation_id == threads[Len(threads)].operation_id IN
       /\ operation_ids' = Put(operation_ids, operation_id, threads[t].status_info)
       /\ puts' = LogPut(operation_id, threads[t].status_info)
  /\ SetThread(t, [threads[t] EXCEPT !.pc = "done"])
  /\ event' = IF blocking
                THEN Returned("run", generate_response_id(threads[t].operation_id))
                ELSE NoEvent
  /\ UNCHANGED <<blocking, inventory, nextInst>>

\* self.operation_ids.put(operation_id, status_info)
spawn_vms_put(t) ==
  /\ event = NoEvent
  /\ threads[t].kind = "run" /\ threads[t].pc = "put"
  /\ operation_ids' = Put(operation_ids, threads[t].operation_id, threads[t].status_info)
  /\ puts' = LogPut(threads[t].operation_id, threads[t].status_info)
  /\ SetThread(t, [threads[t] EXCEPT !.pc = "done"])
  /\ event' = IF blocking
                THEN Returned("run", generate_response_id(threads[t].operation_id))
                ELSE NoEvent
  /\ UNCHANGED <<blocking, inventory, nextInst>>

(* ---------------------------- __kill_vms ------------------------------- *)
kill_vms_get(t) ==
  /\ event = NoEvent
  /\ threads[t].kind = "terminate" /\ threads[t].pc = "get"
  /\ SetThread(t, [threads[t] EXCEPT
       !.status_info = operation_ids[threads[t].operation_id],
       !.pc = "kill"])
  /\ UNCHANGED <<blocking, operation_ids, inventory, nextInst, puts, event>>

\* what agent.terminate_instances(parameters) leaves of the inventory: it
\* stops the one instance the parameters name, if that instance is alive
terminate_result(inv) ==
  {inv} \cup {SelectSeq(inv, LAMBDA x : x.id # inv[i].id) : i \in 1..Len(inv)}

\* agent.terminate_instances returns
kill_vms_terminated(t) ==
  /\ event = NoEvent
  /\ threads[t].kind = "terminate" /\ threads[t].pc = "kill"
  /\ inventory' \in terminate_result(inventory)
  /\ SetThread(t, [threads[t] EXCEPT
       !.status_info = [threads[t].status_info EXCEPT !.state = STATE_SUCCESS],
       !.calls = @ + 1, !.pc = "put"])
  /\ UNCHANGED <<blocking, operation_ids, nextInst, puts, event>>

\* an except branch that leaves the reason of the pending record
kill_vms_except_reason_kept(t) ==
  /\ event = NoEvent
  /\ threads[t].kind = "terminate" /\ threads[t].pc = "kill"
  /\ SetThread(t, [threads[t] EXCEPT
       !.status_info = [threads[t].status_info EXCEPT !.state = STATE_FAILED],
       !.exception = AgentRuntimeException("backend failure"),
       !.calls = @ + 1, !.pc = "put"])
  /\ UNCHANGED <<blocking, operation_ids, inventory, nextInst, puts, event>>

\* agent.terminate_instances raises AgentRuntimeException
kill_vms_except(t) ==
  /\ event = NoEvent
  /\ threads[t].kind = "terminate" /\ threads[t].pc = "kill"
  /\ LET exception == AgentRuntimeException("backend failure") IN
     SetThread(t, [threads[t] EXCEPT
       !.status_info = [threads[t].status_info EXCEPT
          !.state = STATE_FAILED, !.reason = exception.msg],
       !.exception = exception, !.calls = @ + 1, !.pc = "put"])
  /\ UNCHANGED <<blocking, operation_ids, inventory, nextInst, puts, event>>

\* agent.terminate_instances raises AgentConfigurationException, which
\* the except clause does not name: the worker ends without its put
kill_vms_uncaught(t) ==
  /\ event = NoEvent
  /\ threads[t].kind = "terminate" /\ threads[t].pc = "kill"
  /\ SetThread(t, [threads[t] EXCEPT
       !.exception = AgentConfigurationException("bad configuration"),
       !.calls = @ + 1, !.pc = "raised"])
  /\ event' = IF blocking
                THEN Returned("terminate", Raised("AgentConfigurationException"))
                ELSE NoEvent
  /\ UNCHANGED <<blocking, operation_ids, inventory, nextInst, puts>>

kill_vms_put(t) ==
  /\ event = NoEvent
  /\ threads[t].kind = "terminate" /\ threads[t].pc = "put"
  /\ operation_ids' = Put(operation_ids, threads[t].operation_id, threads[t].status_info)
  /\ puts' = LogPut(threads[t].operation_id, threads[t].status_info)
  /\ SetThread(t, [threads[t] EXCEPT !.pc = "done"])
  /\ event' = IF blocking
                THEN Returned("terminate", generate_response_id(threads[t].operation_id))
                ELSE NoEvent
  /\ UNCHANGED <<blocking, inventory, nextInst>>

\* the caller has the outcome of its call
Deliver ==
  /\ event # NoEvent
  /\ event' = NoEvent
  /\ UNCHANGED <<blocking, operation_ids, threads, inventory, nextInst, puts>>

Init ==
  /\ blocking \in BOOLEAN
  /\ operation_ids = <<>>
  /\ threads = <<>>
  /\ nextInst \in {0, 1}
  /\ inventory = [i \in 1..nextInst |-> [id |-> i, pub |-> 100 + i, priv |-> i]]
  /\ puts = <<>>
  /\ event = NoEvent

Next ==
  \/ \E p \in Payloads(RunParameters), s \in SecretArgs : run_instances(p, s)
  \/ \E p \in Payloads(TerminateParameters), s \in SecretArgs : terminate_instances(p, s)
  \/ \E p \in Payloads(DescribeParameters), s \in SecretArgs : describe_operation(p, s)
  \/ \E t \in Tids : spawn_vms_get(t)
  \/ \E t \in Tids : spawn_vms_baseline(t)
  \/ \E t \in Tids : spawn_vms_launched(t)
  \/ \E t \in Tids : spawn_vms_raised(t)
  \/ \E t \in Tids : spawn_vms_except(t)
  \/ \E t \in Tids : spawn_vms_put(t)
  \/ \E t \in Tids : kill_vms_get(t)
  \/ \E t \in Tids : kill_vms_terminated(t)
  \/ \E t \in Tids : kill_vms_except(t)
  \/ \E t \in Tids : kill_vms_uncaught(t)
  \/ \E t \in Tids : kill_vms_put(t)
  \/ Deliver

Spec == Init /\ [][Next]_vars

(* ------------- progress: accepted submissions and workers -------------- *)
\* requests that pass every check of run_instances / terminate_instances
GoodSecret == [type |-> "str", val |-> TheSecret]

AcceptedRuns ==
  {p \in Payloads(RunParameters) :
     run_instances_checks(p, GoodSecret) = None}

AcceptedTerminates ==
  {p \in Payloads(TerminateParameters) :
     terminate_instances_checks(p, GoodSecret) = None}

\* one step of the worker of thread t
Worker(t) ==
  /\ t \in Tids
  /\ \/ spawn_vms_get(t)
     \/ spawn_vms_baseline(t)
     \/ spawn_vms_launched(t)
     \/ spawn_vms_raised(t)
     \/ spawn_vms_except(t)
     \/ spawn_vms_put(t)
     \/ kill_vms_get(t)
     \/ kill_vms_terminated(t)
     \/ kill_vms_except(t)
     \/ kill_vms_uncaught(t)
     \/ kill_vms_put(t)

NextAccepted ==
  \/ \E p \in AcceptedRuns : run_instances(p, GoodSecret)
  \/ \E p \in AcceptedTerminates : terminate_instances(p, GoodSecret)
  \/ \E t \in 1..MaxOps : Worker(t)
  \/ Deliver

\* every started thread keeps running and every call returns: each backend
\* call of a worker comes back, with a result or with an error
LiveSpec ==
  /\ Init
  /\ [][NextAccepted]_vars
  /\ WF_vars(Deliver)
  /\ \A t \in 1..MaxOps : WF_vars(Worker(t))

(* ------------------------------ claims --------------------------------- *)
\* the record stored for the operation of thread t
Rec(t) == operation_ids[threads[t].operation_id]

RunThreads == {t \in Tids : threads[t].kind = "run"}
TerminateThreads == {t \in Tids : threads[t].kind = "terminate"}

\* the worker of t has written its record after a launch that created k of
\* the N instances asked for (0 < k < N) and raised a runtime error
PartialFailure(t) ==
  /\ threads[t].kind = "run" /\ threads[t].pc = "done"
  /\ threads[t].exception # None
  /\ threads[t].exception.type = "AgentRuntimeException"
  /\ 0 < Len(threads[t].launched)
  /\ Len(threads[t].launched) < threads[t].num_vms

\* the post-failure snapshot of t minus its baseline, sequence by sequence
SnapshotDiff(t) ==
  [ public_ips |-> diff(threads[t].observed.public_ips, threads[t].active.public_ips),
    private_ips |-> diff(threads[t].observed.private_ips, threads[t].active.private_ips),
    instance_ids |-> diff(threads[t].observed.instance_ids, threads[t].active.instance_ids) ]

\* the post-failure snapshot of t is its baseline followed by the instances
\* its own launch call created
Undisturbed(t) ==
  LET own == describe_instances(threads[t].launched) IN
  /\ threads[t].observed.public_ips = threads[t].active.public_ips \o own.public_ips
  /\ threads[t].observed.private_ips = threads[t].active.private_ips \o own.private_ips
  /\ threads[t].observed.instance_ids = threads[t].active.instance_ids \o own.instance_ids

C2_VmInfoAligned ==
  \A id \in DOMAIN operation_ids :
    ("vm_info" \in DOMAIN operation_ids[id] /\ operation_ids[id].vm_info # None) =>
      /\ Len(operation_ids[id].vm_info.instance_ids)
           = Len(operation_ids[id].vm_info.public_ips)
      /\ Len(operation_ids[id].vm_info.public_ips)
           = Len(operation_ids[id].vm_info.private_ips)

\* C3: a record enters the store pending, and its state changes only from
\* pending to success or failed; a success or failed state never changes.
C3_StateMonotone ==
  [][ /\ \A id \in DOMAIN operation_ids :
           /\ id \in DOMAIN operation_ids'
           /\ operation_ids'[id].state # operation_ids[id].state =>
                /\ operation_ids[id].state = STATE_PENDING
                /\ operation_ids'[id].state \in {STATE_SUCCESS, STATE_FAILED}
      /\ \A id \in DOMAIN operation_ids' \ DOMAIN operation_ids :
           operation_ids'[id].state = STATE_PENDING ]_vars

\* one record ended in success and another in failed
C3_Witness ==
  \E a, b \in DOMAIN operation_ids :
    /\ puts[a] = <<STATE_PENDING, STATE_SUCCESS>>
    /\ puts[b] = <<STATE_PENDING, STATE_FAILED>>

\* C4: every operation id gets one creating put (pending) and one later put
\* (terminal, by its worker), the worker calls the backend's launch or
\* terminate at most once, and no record leaves the store.
C4_OneCreateOneTerminalPut ==
  \A t \in Tids :
    LET id == threads[t].operation_id IN
    /\ id \in DOMAIN operation_ids
    /\ puts[id][1] = STATE_PENDING
    /\ Len(puts[id]) <= 2
    /\ threads[t].calls <= 1
    /\ Ended(t) =>
         /\ Len(puts[id]) = 2
         /\ puts[id][2] \in {STATE_SUCCESS, STATE_FAILED}

C6_NoForeignInstances ==
  \A t \in RunThreads :
    (threads[t].pc = "done" /\ Rec(t).vm_info # None) =>
      Range(Rec(t).vm_info.instance_ids) \cap threads[t].others = {}

\* C7: every accepted run operation ends with a success or failed record.
C7_RunTerminates ==
  \A t \in 1..MaxOps :
    (t \in Tids /\ threads[t].kind = "run")
      ~> (t \in Tids /\ Rec(t).state \in {STATE_SUCCESS, STATE_FAILED})

\* a run operation whose launch raised a configuration error and whose
\* worker has stored the failed record
C7_Witness ==
  \E t \in RunThreads :
    /\ threads[t].pc = "done"
    /\ threads[t].exception = AgentConfigurationException("bad configuration")
    /\ Rec(t).state = STATE_FAILED

\* the launch call of thread t returned the N instances asked for
LaunchReturned(t) ==
  /\ t \in Tids /\ threads[t].kind = "run"
  /\ threads[t].pc = "put" /\ threads[t].exception = None

\* the record of t shows the full success of that launch
FullSuccessRecorded(t) ==
  /\ t \in Tids /\ threads[t].kind = "run"
  /\ Rec(t).state = STATE_SUCCESS /\ Rec(t).success = TRUE
  /\ Rec(t).vm_info = describe_instances(threads[t].launched)
  /\ Len(Rec(t).vm_info.instance_ids) = threads[t].num_vms
  /\ Len(Rec(t).vm_info.public_ips) = threads[t].num_vms
  /\ Len(Rec(t).vm_info.private_ips) = threads[t].num_vms

\* C8: once the launch call of a run operation has returned its N instances,
\* the record becomes state = success, success = true, with vm_info the three
\* sequences the call returned, N entries each.
C8_FullSuccess ==
  \A t \in 1..MaxOps : LaunchReturned(t) ~> FullSuccessRecorded(t)

\* a run of two instances recorded in full
C8_Witness ==
  \E t \in RunThreads :
    /\ threads[t].pc = "done" /\ threads[t].exception = None
    /\ threads[t].num_vms = 2 /\ FullSuccessRecorded(t)

\* C9: once the terminate worker has written its record, 'success' tells
\* whether the backend's termination succeeded.
C9_TerminateSuccessFlag ==
  \A t \in TerminateThreads :
    threads[t].pc = "done" =>
      /\ Rec(t).success = (threads[t].exception = None)
      /\ Rec(t).state = STATE_FAILED => Rec(t).success = FALSE

\* the step is a public call made with a secret other than the manager's
WrongSecretCall ==
  /\ event = NoEvent /\ event' # NoEvent
  /\ ~event'.secret_ok

NothingDone == UNCHANGED <<blocking, operation_ids, threads, inventory, nextInst, puts>>

BadSecretResponse == generate_response(FALSE, REASON_BAD_SECRET)

\* C10 as stated: every call of run_instances, terminate_instances or
\* describe_operation with a secret other than the manager's answers
\* {success: false, reason: 'bad secret'} and changes nothing.
C10_WrongSecretAlwaysAnswered ==
  [][ WrongSecretCall => (event'.result = BadSecretResponse /\ NothingDone) ]_vars

\* C10 amended: every such call changes nothing (no record, no worker, no
\* backend call); it answers {success: false, reason: 'bad secret'} whenever
\* its arguments pass __validate_args (parameters a dict or the JSON text of
\* one, secret a string), whatever the parameters hold, and otherwise raises
\* the TypeError or ValueError of __validate_args.
C10_WrongSecretRejected ==
  [][ WrongSecretCall =>
        /\ NothingDone
        /\ event'.validated => event'.result = BadSecretResponse
        /\ ~event'.validated =>
             event'.result \in {Raised("TypeError"), Raised("ValueError")} ]_vars

\* a well-formed call with a wrong secret, answered while an operation runs
C10_Witness ==
  /\ event # NoEvent
  /\ event.validated /\ ~event.secret_ok
  /\ event.result = BadSecretResponse
  /\ \E t \in Tids : threads[t].pc = "launch"

\* the step is a public call of api that passed __validate_args and the
\* secret check
AcceptedCall(api) ==
  /\ event = NoEvent /\ event' # NoEvent
  /\ event'.api = api /\ event'.validated /\ event'.secret_ok

\* the step is a run_instances call, with both required keys present, whose
\* num_vms is not an integer above zero
BadVmCountCall ==
  /\ AcceptedCall("run")
  /\ PARAM_NUM_VMS \in DOMAIN event'.parameters
  /\ \/ event'.parameters[PARAM_NUM_VMS] \notin IntStrings
     \/ ParseInt(event'.parameters[PARAM_NUM_VMS]) <= 0

\* C11: every run_instances call with the right secret and both required
\* keys whose num_vms is an integer <= 0 or is not an integer answers
\* {success: false, reason: 'bad vm count'} and creates no record.
C11_BadVmCount ==
  [][ BadVmCountCall =>
        /\ event'.result = generate_response(FALSE, REASON_BAD_VM_COUNT)
        /\ NothingDone ]_vars

\* the reasons of a submission rejected for a missing key or by the agent's
\* assert_required_parameters
SubmissionRejections ==
  {"no " \o PARAM_INFRASTRUCTURE, "no " \o PARAM_NUM_VMS, "no credentials"}

\* the step is a run_instances or terminate_instances call rejected for a
\* missing required key or for a configuration error of the agent
RejectedSubmission ==
  /\ \/ AcceptedCall("run")
     \/ AcceptedCall("terminate")
  /\ "success" \in DOMAIN event'.result
  /\ event'.result.reason \in SubmissionRejections

\* C12: a submission rejected for a missing required key or for a
\* configuration error of the agent returns success = false and no
\* operation_id, and changes neither the store nor the workers nor the
\* backend's inventory.
C12_RejectedSubmissionLeavesNothing ==
  [][ RejectedSubmission =>
        /\ event'.result.success = FALSE
        /\ PARAM_OPERATION_ID \notin DOMAIN event'.result
        /\ NothingDone ]_vars

\* a terminate_instances call rejected by the agent while an earlier
\* operation is in the store
C12_Witness ==
  /\ event # NoEvent /\ event.api = "terminate"
  /\ event.result = generate_response(FALSE, "no credentials")
  /\ DOMAIN operation_ids # {}
  /\ \E t \in Tids : ~Ended(t)

\* the last step was a describe_operation call, with the right secret, that
\* went on to look its operation_id up
DescribedId ==
  /\ event # NoEvent /\ event.api = "describe"
  /\ event.validated /\ event.secret_ok
  /\ PARAM_OPERATION_ID \in DOMAIN event.parameters

NotFoundResponse == generate_response(FALSE, REASON_OPERATION_ID_NOT_FOUND)

\* C13: describe_operation with the right secret answers 'operation_id not
\* found' exactly when the operation_id it is given is not a key of the
\* store, and otherwise returns the record stored under that key as it is,
\* pending or not.
C13_DescribeReturnsStoredRecord ==
  DescribedId =>
    LET id == event.parameters[PARAM_OPERATION_ID] IN
    /\ (event.result = NotFoundResponse) <=> (id \notin DOMAIN operation_ids)
    /\ id \in DOMAIN operation_ids => event.result = operation_ids[id]

\* a describe that returned the record of a run whose instances are listed
C13_Witness ==
  /\ DescribedId
  /\ event.parameters[PARAM_OPERATION_ID] \in DOMAIN operation_ids
  /\ event.result = operation_ids[event.parameters[PARAM_OPERATION_ID]]
  /\ event.result.state = STATE_SUCCESS
  /\ "vm_info" \in DOMAIN event.result /\ event.result.vm_info # None

\* the record a submission of this kind stores
PendingRecord(kind) ==
  IF kind = "run" THEN RunStatusInfo ELSE TerminateStatusInfo

\* C14: the pending record of an operation is in the store from the step
\* that starts its worker and returns its id: the worker's first read finds
\* it (success = true, state = pending, vm_info unset for a run), and a
\* describe of the id of any started operation never answers 'operation_id
\* not found'.
C14_PendingRecordFirst ==
  /\ \A t \in Tids :
       /\ threads[t].operation_id \in DOMAIN operation_ids
       /\ threads[t].pc = "get" => Rec(t) = PendingRecord(threads[t].kind)
       /\ threads[t].pc \in {"describe", "launch", "reconcile", "kill"} =>
            threads[t].status_info = PendingRecord(threads[t].kind)
  /\ (DescribedId /\ \E t \in Tids :
         threads[t].operation_id = event.parameters[PARAM_OPERATION_ID]) =>
       /\ event.result # NotFoundResponse
       /\ event.result = operation_ids[event.parameters[PARAM_OPERATION_ID]]

\* a describe of an operation whose worker has not yet read its record
C14_Witness ==
  /\ DescribedId
  /\ \E t \in Tids :
       /\ threads[t].operation_id = event.parameters[PARAM_OPERATION_ID]
       /\ threads[t].pc = "get"
       /\ event.result = PendingRecord(threads[t].kind)
  /\ \E t \in Tids : threads[t].pc \in {"launch", "kill"}

\* the last step returned an operation id to the caller of run_instances or
\* terminate_instances
ReturnedId ==
  /\ event # NoEvent /\ event.api \in {"run", "terminate"}
  /\ PARAM_OPERATION_ID \in DOMAIN event.result

\* C15: when a blocking manager returns an operation id, the record of that
\* operation is success or failed; a manager that is not blocking returns
\* the id before the worker has taken a step, the record still pending.
C15_BlockingPolicy ==
  ReturnedId =>
    LET id == event.result.operation_id IN
    /\ id \in DOMAIN operation_ids
    /\ blocking => operation_ids[id].state \in {STATE_SUCCESS, STATE_FAILED}
    /\ ~blocking =>
         /\ operation_ids[id].state = STATE_PENDING
         /\ \E t \in Tids : threads[t].operation_id = id /\ threads[t].pc = "get"

\* run_instances of a manager that is not blocking has returned while the
\* record is pending
C15_Witness ==
  /\ ~blocking /\ ReturnedId /\ event.api = "run"
  /\ operation_ids[event.result.operation_id].state = STATE_PENDING

\* the step is a describe_operation call
DescribeCall ==
  /\ event = NoEvent /\ event' # NoEvent
  /\ event'.api = "describe"

\* some describe_operation call
DescribeAny ==
  \E p \in Payloads(DescribeParameters), s \in SecretArgs : describe_operation(p, s)

\* C16: describe_operation changes neither the store nor any worker, what a
\* describe of any operation_id answers is the same after the call as before
\* it, and the call can be made whatever the workers are doing.
C16_DescribeReadOnly ==
  /\ [](event = NoEvent => ENABLED DescribeAny)
  /\ [][ DescribeCall =>
           /\ NothingDone
           /\ \A p \in Payloads(DescribeParameters), s \in SecretArgs :
                describe_operation_result(p, s, operation_ids')
                  = describe_operation_result(p, s, operation_ids) ]_vars

\* a describe answered with the pending record while the worker of that
\* operation is in its launch call
C16_Witness ==
  /\ DescribedId
  /\ \E t \in RunThreads :
       /\ threads[t].operation_id = event.parameters[PARAM_OPERATION_ID]
       /\ threads[t].pc = "launch"
       /\ event.result = RunStatusInfo

\* the run worker of t has written its record after its try block raised
FailedLaunch(t) ==
  /\ threads[t].kind = "run" /\ threads[t].pc = "done"
  /\ threads[t].exception # None

\* C17: when the try block of a run worker raises a configuration or runtime
\* error and the public addresses of the post-failure snapshot minus those of
\* the baseline are empty, the record it writes has state = failed, success =
\* false, reason = the error text, and vm_info still unset.
C17_TotalFailure ==
  \A t \in Tids :
    (FailedLaunch(t) /\ SnapshotDiff(t).public_ips = <<>>) =>
      Rec(t) = [success |-> FALSE, reason |-> threads[t].exception.msg,
                state |-> STATE_FAILED, vm_info |-> None]

\* a launch that raised a runtime error with nothing new beside the
\* instances of the baseline
C17_Witness ==
  \E t \in Tids :
    /\ FailedLaunch(t)
    /\ threads[t].exception.type = "AgentRuntimeException"
    /\ threads[t].active.public_ips # <<>>
    /\ threads[t].observed = threads[t].active
    /\ Rec(t).state = STATE_FAILED /\ Rec(t).vm_info = None

\* C18: every error the backend's terminate call raises in the terminate
\* worker, a configuration error or a runtime error, ends in the record: the
\* worker writes state = failed and reason = the error text, and never ends
\* with the record left pending.
C18_TerminateFailureAbsorbed ==
  \A t \in TerminateThreads :
    /\ threads[t].pc # "raised"
    /\ (Ended(t) /\ threads[t].exception # None) =>
         /\ Rec(t).state = STATE_FAILED
         /\ Rec(t).reason = threads[t].exception.msg

\* C19: the terminate worker calls the backend's terminate once and then
\* writes its record, state = success when the call returned and state =
\* failed with reason = the error text when it raised a runtime error; it
\* takes no snapshot of the inventory.
C19_TerminateWorker ==
  \A t \in TerminateThreads :
    /\ threads[t].calls <= 1
    /\ threads[t].active = EmptyInventory /\ threads[t].observed = EmptyInventory
    /\ threads[t].pc = "put" => puts[threads[t].operation_id] = <<STATE_PENDING>>
    /\ threads[t].pc = "done" =>
         /\ threads[t].calls = 1
         /\ Len(puts[threads[t].operation_id]) = 2
         /\ threads[t].exception = None =>
              /\ Rec(t).state = STATE_SUCCESS
              /\ Rec(t).reason = TerminateStatusInfo.reason
         /\ threads[t].exception # None =>
              /\ threads[t].exception.type = "AgentRuntimeException"
              /\ Rec(t).state = STATE_FAILED
              /\ Rec(t).reason = threads[t].exception.msg

\* one terminate operation recorded as failed and another as success
C19_Witness ==
  \E a, b \in TerminateThreads :
    /\ threads[a].pc = "done" /\ threads[a].exception # None
    /\ Rec(a).state = STATE_FAILED
    /\ threads[b].pc = "done" /\ threads[b].exception = None
    /\ Rec(b).state = STATE_SUCCESS

\* C20: a describe call that fails in the run worker counts as an empty
\* inventory and the worker goes on to its put: after a failed launch, an
\* empty baseline makes vm_info the whole post-failure snapshot when that
\* snapshot is not empty, and an empty post-failure snapshot makes the record
\* state = failed with vm_info unset.
C20_DescribeFailureAbsorbed ==
  \A t \in RunThreads :
    /\ threads[t].pc # "raised"
    /\ (FailedLaunch(t) /\ threads[t].active = EmptyInventory) =>
         IF threads[t].observed.public_ips # <<>>
           THEN Rec(t).state = STATE_SUCCESS /\ Rec(t).vm_info = threads[t].observed
           ELSE Rec(t).state = STATE_FAILED /\ Rec(t).vm_info = None
    /\ (FailedLaunch(t) /\ threads[t].observed = EmptyInventory) =>
         Rec(t).state = STATE_FAILED /\ Rec(t).vm_info = None

\* the baseline of a run worker came back empty although the instance the
\* backend held from the start was alive, and the record lists that instance
C20_Witness ==
  \E t \in RunThreads :
    /\ FailedLaunch(t) /\ threads[t].active = EmptyInventory
    /\ \A u \in Tids : \A i \in 1..Len(threads[u].launched) : threads[u].launched[i].id # 1
    /\ Rec(t).state = STATE_SUCCESS
    /\ Rec(t).vm_info = threads[t].observed
    /\ 1 \in Range(Rec(t).vm_info.instance_ids)

\* C21: a record already in the store changes only in the put of the worker
\* whose operation_id is its key, a step in which no other worker moves and
\* which leaves every other record as it was; no other operation has that
\* key, so from the worker's first read to its put the record stays the
\* pending one; and a key enters the store only with the submission that
\* starts its worker.
C21_WorkerWritesOwnRecord ==
  [][ /\ \A id \in DOMAIN operation_ids :
           (id \notin DOMAIN operation_ids' \/ operation_ids'[id] # operation_ids[id]) =>
             \E t \in Tids :
               /\ threads[t].operation_id = id
               /\ threads[t].pc = "put" /\ threads'[t].pc = "done"
               /\ operation_ids[id] = PendingRecord(threads[t].kind)
               /\ operation_ids'[id] = threads[t].status_info
               /\ \A u \in Tids \ {t} :
                    /\ threads[u].operation_id # id
                    /\ threads'[u].pc = threads[u].pc
               /\ \A k \in DOMAIN operation_ids \ {id} :
                    k \in DOMAIN operation_ids' /\ operation_ids'[k] = operation_ids[k]
      /\ \A id \in DOMAIN operation_ids' \ DOMAIN operation_ids :
           /\ Len(threads') = Len(threads) + 1
           /\ threads'[Len(threads')].operation_id = id ]_vars

\* one worker has written its record while another, between its read and
\* its put, still has the pending record in the store
C21_Witness ==
  \E a, b \in Tids :
    /\ threads[a].pc = "done"
    /\ Rec(a).state \in {STATE_SUCCESS, STATE_FAILED}
    /\ threads[b].pc \in {"launch", "reconcile", "put", "kill"}
    /\ Rec(b) = PendingRecord(threads[b].kind)

\* state, success and whether vm_info is set, of the record r of a run
Shape(r) == <<r.state, r.success, r.vm_info # None>>

\* C22: the record of every run operation has (state, success, vm_info) =
\* (pending, true, unset), (success, true, set), (success, false, set) or
\* (failed, false, unset); and state = success with success = false is only
\* recorded after a launch error whose post-failure snapshot held public
\* addresses the baseline did not.
C22_RunRecordShapes ==
  \A t \in RunThreads :
    /\ Shape(Rec(t)) \in { <<STATE_PENDING, TRUE, FALSE>>,
                           <<STATE_SUCCESS, TRUE, TRUE>>,
                           <<STATE_SUCCESS, FALSE, TRUE>>,
                           <<STATE_FAILED, FALSE, FALSE>> }
    /\ Rec(t).vm_info # None =>
         DOMAIN Rec(t).vm_info = {"public_ips", "private_ips", "instance_ids"}
    /\ Shape(Rec(t)) = <<STATE_SUCCESS, FALSE, TRUE>> =>
         /\ threads[t].exception # None
         /\ SnapshotDiff(t).public_ips # <<>>

\* one run recorded as a partial success and another as a total failure
C22_Witness ==
  \E a, b \in RunThreads :
    /\ Shape(Rec(a)) = <<STATE_SUCCESS, FALSE, TRUE>>
    /\ Shape(Rec(b)) = <<STATE_FAILED, FALSE, FALSE>>
====
